---- MODULE Spec2Model ----
(***************************************************************************)
(* A model of simulate.ipynb of pmckenz1/gtinf: the Coalseq class          *)
(* (_get_demography, make_treeseq, write_trees) and the window extractor   *)
(* (write_subseq, produce_subseqs).  Event times are whole numbers         *)
(* (height * 2 * Ne over small heights and Ne), interval lengths whole     *)
(* numbers of 1/LenDen sites.                                              *)
(*                                                                         *)
(* The specifications of the module, one per part of the program:          *)
(*   SpecWindows     produce_subseqs, run once or twice on one directory   *)
(*   SpecDemography  Coalseq._get_demography on a species tree             *)
(*   SpecPipeline    Coalseq.make_treeseq / write_trees / write_seqs /     *)
(*                   build_seqs in every order                             *)
(*   SpecAssemble    Coalseq.build_seqs on the fragment files a seqs       *)
(*                   directory can hold                                    *)
(*   SpecSeed        Coalseq.__init__ and the process-wide random source   *)
(* The variables of the parts a specification does not run keep their      *)
(* initial values.                                                         *)
(***************************************************************************)
EXTENDS Integers, Sequences, FiniteSets, Bags, TLC

(***************************************************************************)
(* Bounds of the model.                                                    *)
(***************************************************************************)
MaxTotalLen == 6
MaxWindow == 7
MaxSlide == 7
MaxTips == 4
MaxHeight == 2
MaxNe == 2
MaxLength == 1
MaxTrees == 2
MaxSims == 2
LenDen == 2
PipeTips == 2
MaxFrags == 2
MaxFragLen == 2
MaxAsmTips == 10
MaxSeed == 2
MaxTheta == 3
MaxInits == 2
RngMod == 5

VARIABLES
  \* ---- produce_subseqs ----
  total_len,       \* seqs['alignment'].shape[1]
  window_size,     \* argument
  slide_interval,  \* argument
  startlimit,      \* total_len - window_size
  startidx,        \* loop variable
  num,             \* loop variable
  index_nums,      \* list
  index_starts,    \* list
  index_ends,      \* list
  wfiles,          \* the window files of directory_name
  indexfile,       \* directory_name/_index.hdf5
  wpc,             \* position in produce_subseqs
  \* ---- Coalseq: the species tree and _get_demography ----
  ntips,           \* self.ntips; the leaves are the nodes 0 .. ntips-1
  tparent,         \* self.tree: node idx -> idx of its parent (the root: itself)
  theight,         \* node.height of every node
  Ne,              \* self._Ne
  schild,          \* node._schild of every node (NoSchild before it is set)
  demog,           \* the set demog
  events,          \* the sorted list _get_demography returns
  dtodo,           \* the nodes the running traversal has still to visit
  dpc,             \* position in _get_demography
  \* ---- Coalseq: make_treeseq and write_trees ----
  length,          \* self._length, in sites
  simno,           \* how many simulations make_treeseq has run
  treeseq,         \* self.treeseq: the intervals in genome order
  genetrees,       \* dirname/ms_genetrees: file number -> content of the .phy file
  lengthsfile,     \* dirname/ms_genetree_lengths.hdf5
  stage,           \* the stage the caller ran last
  stage_error,     \* the exception that ended it ("none": it completed)
  \* ---- Coalseq: write_seqs and build_seqs ----
  seqs,            \* dirname/seqs: file number -> the fragment in the .fa file
  seqgen_calls,    \* the seq-gen runs of the stage run last (a bag)
  final_fa,        \* dirname/final_seqs.fa
  final_h5,        \* dirname/final_seqs.hdf5
  bs,              \* the locals of build_seqs as it ended, if it ran last
  \* ---- Coalseq.__init__ and np.random ----
  rng,             \* the state of the process-wide random source
  inits            \* the constructions so far: seed, _rtheta and final _theta

winvars == <<total_len, window_size, slide_interval, startlimit, startidx, num,
             index_nums, index_starts, index_ends, wfiles, indexfile, wpc>>

demvars == <<ntips, tparent, theight, Ne, schild, demog, events, dtodo, dpc>>

pipevars == <<length, simno, treeseq, genetrees, lengthsfile, stage, stage_error,
              seqs, seqgen_calls, final_fa, final_h5, bs>>

\* what produce_subseqs leaves alone
seedvars == <<rng, inits>>

notwinvars == <<demvars, pipevars, seedvars>>

\* what _get_demography leaves alone
notdemvars == <<winvars, pipevars, seedvars>>

\* what make_treeseq and write_trees leave alone
notpipevars == <<winvars, demvars, seedvars>>

\* what __init__ leaves alone of the state modelled here
notseedvars == <<winvars, demvars, pipevars>>

vars == <<winvars, demvars, pipevars, seedvars>>

\* an index file that does not exist
NoFile == [present |-> FALSE, nums |-> <<>>, starts |-> <<>>, ends |-> <<>>]

Min(S) == CHOOSE x \in S : \A y \in S : x <= y
Max(S) == CHOOSE x \in S : \A y \in S : x >= y

(***************************************************************************)
(* write_subseq: the header gives endidx - startidx as the length, the     *)
(* rows are the columns alignment[:, startidx:endidx].  A Python slice     *)
(* counts a negative index from the end and clips both ends to the array.  *)
(***************************************************************************)
PyIndex(i, n) == IF i < 0 THEN Max({0, n + i}) ELSE Min({i, n})

PySlice(s, e, n) ==
  LET lo == PyIndex(s, n)
      hi == PyIndex(e, n)
  IN  IF lo < hi THEN lo .. (hi - 1) ELSE {}

write_subseq(n, s, e, total) ==
  [num |-> n, start |-> s, end |-> e, hdrlen |-> e - s, cols |-> PySlice(s, e, total)]

(***************************************************************************)
(* The pieces of produce_subseqs.                                          *)
(***************************************************************************)
StartLimit(total, wsize) == total - wsize

LoopCondMut(start, limit) == start < limit
LoopCond(start, limit) == start <= limit

WindowEndMut(start, wsize) == start + wsize - 1
WindowEnd(start, wsize) == start + wsize

NextStartMut(start, wsize, slide) == start + wsize
NextStart(start, wsize, slide) == start + slide

HasRemainderMut(start, limit, total) == start < limit
HasRemainder(start, limit, total) == start < total

RemainderStartMut(start, limit) == start
RemainderStart(start, limit) == limit

(***************************************************************************)
(* produce_subseqs(window_size, slide_interval, full_seq_path,             *)
(* directory_name) on a directory that holds no window file yet.           *)
(***************************************************************************)
InitWindowVars ==
  /\ total_len \in 1 .. MaxTotalLen
  /\ window_size \in 1 .. MaxWindow
  /\ slide_interval \in 1 .. MaxSlide
  /\ startlimit = 0
  /\ startidx = 0
  /\ num = 0
  /\ index_nums = <<>>
  /\ index_starts = <<>>
  /\ index_ends = <<>>
  /\ wfiles = {}
  /\ indexfile = NoFile
  /\ wpc = "call"

\* The scenario of the specification: total_length=1000, windowSize=400,
\* slideInterval=300.
InitWindowScenario ==
  /\ total_len = 1000
  /\ window_size = 400
  /\ slide_interval = 300
  /\ startlimit = 0
  /\ startidx = 0
  /\ num = 0
  /\ index_nums = <<>>
  /\ index_starts = <<>>
  /\ index_ends = <<>>
  /\ wfiles = {}
  /\ indexfile = NoFile
  /\ wpc = "call"

\* lines 1367-1378: read the alignment's width, set the start limit and the lists
PS_Open ==
  /\ UNCHANGED notwinvars
  /\ wpc = "call"
  /\ startlimit' = StartLimit(total_len, window_size)
  /\ index_nums' = <<>>
  /\ index_starts' = <<>>
  /\ index_ends' = <<>>
  /\ startidx' = 0
  /\ num' = 0
  /\ wpc' = "loop"
  /\ UNCHANGED <<total_len, window_size, slide_interval, wfiles, indexfile>>

\* lines 1379-1393: one iteration of the regular-stride loop
PS_LoopBody ==
  /\ UNCHANGED notwinvars
  /\ wpc = "loop"
  /\ LoopCond(startidx, startlimit)
  /\ LET endidx == WindowEnd(startidx, window_size)
     IN  /\ index_nums' = Append(index_nums, num)
         /\ index_starts' = Append(index_starts, startidx)
         /\ index_ends' = Append(index_ends, endidx)
         /\ wfiles' = wfiles \cup {write_subseq(num, startidx, endidx, total_len)}
  /\ startidx' = NextStart(startidx, window_size, slide_interval)
  /\ num' = num + 1
  /\ UNCHANGED <<total_len, window_size, slide_interval, startlimit, indexfile, wpc>>

\* line 1379: the loop condition fails
PS_LoopExit ==
  /\ UNCHANGED notwinvars
  /\ wpc = "loop"
  /\ ~LoopCond(startidx, startlimit)
  /\ wpc' = "remainder"
  /\ UNCHANGED <<total_len, window_size, slide_interval, startlimit, startidx, num,
                 index_nums, index_starts, index_ends, wfiles, indexfile>>

\* lines 1395-1405: the window of the remainder
PS_Remainder ==
  /\ UNCHANGED notwinvars
  /\ wpc = "remainder"
  /\ IF HasRemainder(startidx, startlimit, total_len)
       THEN LET s == RemainderStart(startidx, startlimit)
            IN  /\ index_nums' = Append(index_nums, num)
                /\ index_starts' = Append(index_starts, s)
                /\ index_ends' = Append(index_ends, total_len)
                /\ wfiles' = wfiles \cup {write_subseq(num, s, total_len, total_len)}
       ELSE UNCHANGED <<index_nums, index_starts, index_ends, wfiles>>
  /\ wpc' = "index"
  /\ UNCHANGED <<total_len, window_size, slide_interval, startlimit, startidx, num,
                 indexfile>>

\* lines 1406-1410: the index file.  h5py.File(path) opens an existing file for
\* update, and indexfile['nums'] = ... raises when the file holds that name
PS_WriteIndex ==
  /\ UNCHANGED notwinvars
  /\ wpc = "index"
  /\ IF indexfile.present
       THEN /\ wpc' = "error"
            /\ UNCHANGED indexfile
       ELSE /\ indexfile' = [present |-> TRUE, nums |-> index_nums,
                             starts |-> index_starts, ends |-> index_ends]
            /\ wpc' = "done"
  /\ UNCHANGED <<total_len, window_size, slide_interval, startlimit, startidx, num,
                 index_nums, index_starts, index_ends, wfiles>>

\* produce_subseqs is called again, with the same arguments and the same
\* output directory
PS_CallAgain ==
  /\ UNCHANGED notwinvars
  /\ wpc \in {"done", "error"}
  /\ wpc' = "call"
  /\ UNCHANGED <<total_len, window_size, slide_interval, startlimit, startidx, num,
                 index_nums, index_starts, index_ends, wfiles, indexfile>>

\* no Coalseq is constructed
SeedIdle ==
  /\ rng = 0
  /\ inits = <<>>

\* the Coalseq object while only produce_subseqs runs
DemographyIdle ==
  /\ ntips = 0
  /\ tparent = <<>>
  /\ theight = <<>>
  /\ Ne = 1
  /\ schild = <<>>
  /\ demog = {}
  /\ events = <<>>
  /\ dtodo = <<>>
  /\ dpc = "idle"

\* no lengths file
NoLengths == [present |-> FALSE, lengths |-> <<>>]

\* no text alignment, no binary alignment
NoText == [present |-> FALSE, ntips |-> 0, seq_len |-> 0, rows |-> <<>>]
NoH5 == [present |-> FALSE, alignment |-> <<>>]

\* build_seqs has not run
NoBuild == [hdf5 |-> FALSE, seq_len |-> 0, counter |-> 0, seq_arr |-> <<>>,
            placed |-> <<>>]

\* a directory in which write_seqs and build_seqs have not run
NoAssembly ==
  /\ stage_error = "none"
  /\ seqs = <<>>
  /\ seqgen_calls = EmptyBag
  /\ final_fa = NoText
  /\ final_h5 = NoH5
  /\ bs = NoBuild

\* the Coalseq object's directory while no pipeline stage runs
PipelineIdle ==
  /\ length = 1
  /\ simno = 0
  /\ treeseq = <<>>
  /\ genetrees = <<>>
  /\ lengthsfile = NoLengths
  /\ stage = "idle"
  /\ NoAssembly

InitWindows ==
  (InitWindowVars \/ InitWindowScenario) /\ DemographyIdle /\ PipelineIdle /\ SeedIdle

NextWindows ==
  \/ PS_Open
  \/ PS_LoopBody
  \/ PS_LoopExit
  \/ PS_Remainder
  \/ PS_WriteIndex
  \/ PS_CallAgain

SpecWindows == InitWindows /\ [][NextWindows]_vars

(***************************************************************************)
(* The species tree (self.tree).  toytree numbers the nodes: the leaves    *)
(* carry the idx 0 .. ntips-1, the internal nodes the idx above them, the  *)
(* root the highest, and a parent's idx is above its children's.           *)
(* Leaves are at height 0 (ultrametric); an internal node is at least as   *)
(* high as its children.                                                   *)
(***************************************************************************)
Nodes == DOMAIN tparent

Root == Cardinality(Nodes) - 1

IsLeaf(n) == n < ntips

\* node.children
Children(n) == {c \in Nodes : c # n /\ tparent[c] = n}

Internal == {n \in Nodes : Children(n) # {}}

RECURSIVE IsBelow(_, _)
\* d is n or below n
IsBelow(d, n) ==
  IF d = n THEN TRUE
  ELSE IF tparent[d] = d THEN FALSE
  ELSE IsBelow(tparent[d], n)

\* node.get_descendants(): every node below node, internal nodes and leaves,
\* not node itself
DescendantsMut(n) == Children(n)
Descendants(n) == {d \in Nodes : d # n /\ IsBelow(d, n)}

RECURSIVE Depth(_)
Depth(n) == IF tparent[n] = n THEN 0 ELSE 1 + Depth(tparent[n])

\* The order of tree.treenode.traverse(): level by level from the root.  Neither
\* loop of _get_demography reads what an earlier iteration of the same loop
\* wrote, and demog is a set.
TraverseFirst(S) ==
  CHOOSE n \in S :
    \A m \in S : \/ m = n
                 \/ Depth(n) < Depth(m)
                 \/ Depth(n) = Depth(m) /\ n > m

RECURSIVE TraverseFrom(_)
TraverseFrom(S) ==
  IF S = {} THEN <<>>
  ELSE <<TraverseFirst(S)>> \o TraverseFrom(S \ {TraverseFirst(S)})

Traverse == TraverseFrom(Nodes)

NoSchild == -1

\* lines 943-946
TagSchild(n) ==
  IF Children(n) # {} THEN Min({i : i \in Descendants(n)}) ELSE n

\* lines 951-953
EventDestMut(n) == Max({schild[c] : c \in Children(n)})
EventDest(n) == Min({schild[c] : c \in Children(n)})

EventSourceMut(n) == Min({schild[c] : c \in Children(n)})
EventSource(n) == Max({schild[c] : c \in Children(n)})

EventTime(h, ne) == h * 2 * ne

\* ms.MassMigration(time, source, dest)
MassMigration(t, s, d) == [time |-> t, source |-> s, dest |-> d]

\* line 961: the key of the sort
SortKey(e) == e.time

\* sorted(list(demog), key=...): list(demog) is the set in an order the set
\* chooses, and the sort is stable, so the result is any arrangement of the
\* set with non-decreasing keys.
Sorted(S) ==
  {s \in [1 .. Cardinality(S) -> S] :
      /\ \A i, j \in DOMAIN s : i # j => s[i] # s[j]
      /\ \A i, j \in DOMAIN s : i < j => SortKey(s[i]) <= SortKey(s[j])}

\* the leaves below node k of the tree with parent function p
RECURSIVE LeavesBelow(_, _, _)
LeavesBelow(p, nt, k) ==
  IF k < nt THEN {k}
  ELSE UNION {LeavesBelow(p, nt, c) : c \in {c \in DOMAIN p : c # k /\ p[c] = k}}

IsInterval(S) == \A x \in Min(S) .. Max(S) : x \in S

\* The trees of nt leaves and n nodes as toytree numbers them: a parent's idx
\* is above its children's, every internal node has two children or more, and
\* the leaves get their idx in the order of get_leaves(), so that the leaves
\* below a node carry consecutive idx.
TreeShapes(nt, n) ==
  {p \in [0 .. (n - 1) -> nt .. (n - 1)] :
      /\ p[n - 1] = n - 1
      /\ \A k \in 0 .. (n - 2) : p[k] > k
      /\ \A k \in nt .. (n - 1) :
            Cardinality({c \in 0 .. (n - 1) : c # k /\ p[c] = k}) >= 2
      /\ \A k \in nt .. (n - 1) : IsInterval(LeavesBelow(p, nt, k))}

\* node.height: 0 at the leaves, and no node higher than its parent
TreeHeights(nt, n, p) ==
  {[k \in 0 .. (n - 1) |-> IF k < nt THEN 0 ELSE hi[k]] :
      hi \in {h \in [nt .. (n - 1) -> 0 .. MaxHeight] :
                 \A k \in nt .. (n - 2) : h[p[k]] >= h[k]}}

InitDemographyVars ==
  /\ ntips \in 2 .. MaxTips
  /\ \E nint \in 1 .. (MaxTips - 1) :
        /\ nint <= ntips - 1
        /\ tparent \in TreeShapes(ntips, ntips + nint)
        /\ theight \in TreeHeights(ntips, ntips + nint, tparent)
  /\ Ne \in 1 .. MaxNe
  /\ schild = [n \in DOMAIN tparent |-> NoSchild]
  /\ demog = {}
  /\ events = <<>>
  /\ dtodo = <<>>
  /\ dpc = "call"

\* line 937
GD_Begin ==
  /\ UNCHANGED notdemvars
  /\ dpc = "call"
  /\ demog' = {}
  /\ dtodo' = Traverse
  /\ dpc' = "tag"
  /\ UNCHANGED <<ntips, tparent, theight, Ne, schild, events>>

\* lines 942-946: one node of the first traversal
GD_Tag ==
  /\ UNCHANGED notdemvars
  /\ dpc = "tag"
  /\ dtodo # <<>>
  /\ schild' = [schild EXCEPT ![Head(dtodo)] = TagSchild(Head(dtodo))]
  /\ dtodo' = Tail(dtodo)
  /\ UNCHANGED <<ntips, tparent, theight, Ne, demog, events, dpc>>

\* the first traversal ends, the second begins
GD_TagEnd ==
  /\ UNCHANGED notdemvars
  /\ dpc = "tag"
  /\ dtodo = <<>>
  /\ dtodo' = Traverse
  /\ dpc' = "div"
  /\ UNCHANGED <<ntips, tparent, theight, Ne, schild, demog, events>>

\* lines 949-954: one node of the second traversal
GD_Div ==
  /\ UNCHANGED notdemvars
  /\ dpc = "div"
  /\ dtodo # <<>>
  /\ LET node == Head(dtodo)
     IN  IF Children(node) # {}
           THEN demog' = demog \cup
                  {MassMigration(EventTime(theight[node], Ne), EventSource(node),
                                 EventDest(node))}
           ELSE demog' = demog
  /\ dtodo' = Tail(dtodo)
  /\ UNCHANGED <<ntips, tparent, theight, Ne, schild, events, dpc>>

\* lines 960-962: sort and return
GD_Sort ==
  /\ UNCHANGED notdemvars
  /\ dpc = "div"
  /\ dtodo = <<>>
  /\ events' \in Sorted(demog)
  /\ dpc' = "done"
  /\ UNCHANGED <<ntips, tparent, theight, Ne, schild, demog, dtodo>>

\* produce_subseqs while only _get_demography runs
WindowsIdle ==
  /\ total_len = 1
  /\ window_size = 1
  /\ slide_interval = 1
  /\ startlimit = 0
  /\ startidx = 0
  /\ num = 0
  /\ index_nums = <<>>
  /\ index_starts = <<>>
  /\ index_ends = <<>>
  /\ wfiles = {}
  /\ indexfile = NoFile
  /\ wpc = "idle"

InitDemography == InitDemographyVars /\ WindowsIdle /\ PipelineIdle /\ SeedIdle

NextDemography ==
  \/ GD_Begin
  \/ GD_Tag
  \/ GD_TagEnd
  \/ GD_Div
  \/ GD_Sort

SpecDemography == InitDemography /\ [][NextDemography]_vars

(***************************************************************************)
(* make_treeseq and write_trees.  The coalescent engine returns the        *)
(* intervals of one replicate: their lengths are real numbers that sum to  *)
(* self._length.  A length is held as a whole number of 1/LenDen sites.    *)
(***************************************************************************)
RECURSIVE Compositions(_)
\* the sequences of positive numbers that sum to n
Compositions(n) ==
  IF n = 0 THEN {<<>>}
  ELSE UNION {{<<k>> \o c : c \in Compositions(n - k)} : k \in 1 .. n}

RECURSIVE SumSeq(_)
SumSeq(q) == IF q = <<>> THEN 0 ELSE Head(q) + SumSeq(Tail(q))

\* the replicates ms.simulate can return for a chromosome of len sites, of
\* MaxTrees intervals at most: interval i has the length lens[i] / LenDen and the
\* local tree <<k, i>> of simulation k
Replicates(len, k) ==
  {[i \in 1 .. Len(lens) |-> [length |-> lens[i], tree |-> <<k, i>>]] :
      lens \in {c \in Compositions(len * LenDen) : Len(c) <= MaxTrees}}

\* tree.newick()
Newick(t) == [newick |-> t]

\* np.int64(tree.get_length()): the fraction is cut off
Int64(q) == q \div LenDen

InitPipelineVars ==
  /\ length \in 1 .. MaxLength
  /\ simno = 0
  /\ treeseq = <<>>
  /\ genetrees = <<>>
  /\ lengthsfile = NoLengths
  /\ stage = "init"
  /\ NoAssembly

\* lines 1004-1007
make_treeseq ==
  /\ UNCHANGED notpipevars
  /\ simno < MaxSims
  /\ simno' = simno + 1
  /\ treeseq' \in Replicates(length, simno + 1)
  /\ stage' = "make_treeseq"
  /\ stage_error' = "none"
  /\ seqgen_calls' = EmptyBag
  /\ bs' = NoBuild
  /\ UNCHANGED <<length, genetrees, lengthsfile, seqs, final_fa, final_h5>>

\* lines 1009-1033; self.treeseq exists once make_treeseq has run
write_trees ==
  /\ UNCHANGED notpipevars
  /\ simno > 0
  /\ genetrees' =
       [f \in DOMAIN genetrees \cup (0 .. (Len(treeseq) - 1)) |->
           IF f < Len(treeseq) THEN Newick(treeseq[f + 1].tree) ELSE genetrees[f]]
  /\ lengthsfile' =
       [present |-> TRUE,
        lengths |-> [i \in 1 .. Len(treeseq) |-> Int64(treeseq[i].length)]]
  /\ stage' = "write_trees"
  /\ stage_error' = "none"
  /\ seqgen_calls' = EmptyBag
  /\ bs' = NoBuild
  /\ UNCHANGED <<length, simno, treeseq, seqs, final_fa, final_h5>>

(***************************************************************************)
(* write_seqs.  seq-gen prints a fragment: a header line " ntips length"   *)
(* and one line per tip, the tip's label (1 .. ntips, ten characters wide) *)
(* followed by its sequence.  A fragment is held as its header length, the *)
(* tree it was made from and the labels of its rows in file order; the     *)
(* character j of the row of tip t is <<src, t, j>>.                        *)
(***************************************************************************)
\* a header line from which no integer length can be read
BadHeader == -1

\* seq-gen <tree file> -l length, with one row per tip of the tree
SeqGen(treefile, len, nt) ==
  [hdr |-> len, src |-> treefile.newick, rows |-> [i \in 1 .. nt |-> i]]

\* os.listdir: the files in an order of the file system's choosing
ListingsMut(S) == [1 .. Cardinality(S) -> S]
Listings(S) ==
  {o \in [1 .. Cardinality(S) -> S] : \A i, j \in DOMAIN o : i # j => o[i] # o[j]}

\* line 1049: lengthsfile['lengths'][np.int(num)] for a number the table does
\* not hold raises (ValueError in the h5py of the notebook) before seq-gen is
\* started for the file
FailedLookupMut(dir, calls, f) ==
  [err |-> "ValueError", seqs |-> dir,
   calls |-> calls (+) SetToBag({[tree |-> f, length |-> 0, out |-> f]})]
FailedLookup(dir, calls, f) == [err |-> "ValueError", seqs |-> dir, calls |-> calls]

\* lines 1045-1056, for the files order[i], order[i+1], ...
RECURSIVE SeqGenLoop(_, _, _, _)
SeqGenLoop(order, i, dir, calls) ==
  IF i > Len(order) THEN [err |-> "none", seqs |-> dir, calls |-> calls]
  ELSE LET f == order[i]
       IN  IF f >= Len(lengthsfile.lengths)
             THEN FailedLookup(dir, calls, f)
             ELSE LET len == lengthsfile.lengths[f + 1]
                      out == SeqGen(genetrees[f], len, ntips)
                  IN  SeqGenLoop(order, i + 1,
                        [g \in DOMAIN dir \cup {f} |-> IF g = f THEN out ELSE dir[g]],
                        calls (+) SetToBag({[tree |-> f, length |-> len, out |-> f]}))

\* lines 1035-1056
write_seqs ==
  /\ UNCHANGED notpipevars
  /\ stage' = "write_seqs"
  /\ IF ~lengthsfile.present
       THEN /\ stage_error' = "IOError"
            /\ seqgen_calls' = EmptyBag
            /\ UNCHANGED seqs
       ELSE \E order \in Listings(DOMAIN genetrees) :
              LET r == SeqGenLoop(order, 1, seqs, EmptyBag)
              IN  /\ stage_error' = r.err
                  /\ seqs' = r.seqs
                  /\ seqgen_calls' = r.calls
  /\ bs' = NoBuild
  /\ UNCHANGED <<length, simno, treeseq, genetrees, lengthsfile, final_fa, final_h5>>

(***************************************************************************)
(* build_seqs.                                                             *)
(***************************************************************************)
\* str(n)
RECURSIVE Digits(_)
Digits(n) == IF n < 10 THEN <<n>> ELSE Digits(n \div 10) \o <<n % 10>>

\* a < b for two labels as strings, each followed by spaces: a space sorts
\* before every digit
RECURSIVE StrLess(_, _)
StrLess(a, b) ==
  IF a = <<>> THEN b # <<>>
  ELSE IF b = <<>> THEN FALSE
  ELSE IF Head(a) # Head(b) THEN Head(a) < Head(b)
  ELSE StrLess(Tail(a), Tail(b))

\* the order np.sort gives two row lines: the order of their labels as strings
RowLess(t, u) == StrLess(Digits(t), Digits(u))

RECURSIVE SortLabels(_)
SortLabels(S) ==
  IF S = {} THEN <<>>
  ELSE LET m == CHOOSE t \in S : \A u \in S : u = t \/ RowLess(t, u)
       IN  <<m>> \o SortLabels(S \ {m})

\* np.sort(lines)[1:]: the header line starts with a space and sorts first; the
\* rows follow in the order of their lines
NpSortRows(rows) == SortLabels({rows[i] : i \in DOMAIN rows})

RECURSIVE Pass1(_, _, _, _)

\* lines 1068-1069: the handler concatenates a str and a list, which raises
\* TypeError out of build_seqs
Pass1ExceptMut(dir, k, n, acc) == Pass1(dir, k + 1, n, acc)
Pass1Except(dir, k, n, acc) == [err |-> "TypeError", seq_len |-> acc]

\* lines 1061-1069, for the fragments k .. n-1
Pass1(dir, k, n, acc) ==
  IF k >= n THEN [err |-> "none", seq_len |-> acc]
  ELSE IF k \notin DOMAIN dir THEN [err |-> "IOError", seq_len |-> acc]
  ELSE IF dir[k].hdr = BadHeader THEN Pass1Except(dir, k, n, acc)
  ELSE Pass1(dir, k + 1, n, acc + dir[k].hdr)

\* line 1071: np.zeros((ntips, seq_len), dtype=np.str)
Zeros(nt, len) == [r \in 1 .. nt |-> [c \in 1 .. len |-> <<>>]]

\* lines 1085-1086: row idx of the sorted rows goes to seq_arr[idx], columns
\* counter .. counter+lenseq-1
Place(arr, sorted, src, counter, lenseq) ==
  [r \in 1 .. Len(arr) |->
     [c \in 1 .. Len(arr[r]) |->
        IF r <= Len(sorted) /\ c - 1 >= counter /\ c - 1 < counter + lenseq
          THEN <<src, sorted[r], c - 1 - counter>>
          ELSE arr[r][c]]]

\* line 1087
NextCounterMut(counter, lenseq) == counter + 1
NextCounter(counter, lenseq) == counter + lenseq

\* lines 1074-1087, for the fragments k .. n-1
RECURSIVE Pass2(_, _, _, _, _, _)
Pass2(dir, k, n, counter, arr, placed) ==
  IF k >= n THEN [err |-> "none", counter |-> counter, seq_arr |-> arr, placed |-> placed]
  ELSE IF k \notin DOMAIN dir
    THEN [err |-> "IOError", counter |-> counter, seq_arr |-> arr, placed |-> placed]
  ELSE IF dir[k].hdr = BadHeader
    THEN [err |-> "ValueError", counter |-> counter, seq_arr |-> arr, placed |-> placed]
  ELSE LET sorted == NpSortRows(dir[k].rows)
           lenseq == dir[k].hdr
       IN  IF Len(sorted) > Len(arr)
             THEN [err |-> "IndexError", counter |-> counter,
                   seq_arr |-> Place(arr, sorted, dir[k].src, counter, lenseq),
                   placed |-> placed]
             ELSE Pass2(dir, k + 1, n, NextCounter(counter, lenseq),
                        Place(arr, sorted, dir[k].src, counter, lenseq),
                        Append(placed, <<counter, counter + lenseq>>))

\* lines 1090-1101: the text file, rewritten
TextFile(nt, len, arr) ==
  [present |-> TRUE, ntips |-> nt, seq_len |-> len,
   rows |-> [i \in 1 .. Len(arr) |-> [label |-> i, seq |-> arr[i]]]]

\* lines 1103-1104: h5py.File(path) opens an existing file for update, and
\* db['alignment'] = ... raises when the file already holds that name
H5Write(arr) ==
  IF final_h5.present
    THEN /\ stage_error' = "RuntimeError"
         /\ UNCHANGED <<final_fa, final_h5>>
    ELSE /\ final_h5' = [present |-> TRUE, alignment |-> arr]
         /\ stage_error' = "none"
         /\ UNCHANGED final_fa

\* lines 1058-1105, with filename = 'final_seqs'
build_seqs ==
  /\ UNCHANGED notpipevars
  /\ simno > 0
  /\ stage' = "build_seqs"
  /\ \E hdf5 \in BOOLEAN :
       LET n == Len(treeseq)
           p1 == Pass1(seqs, 0, n, 0)
           p2 == Pass2(seqs, 0, n, 0, Zeros(ntips, p1.seq_len), <<>>)
       IN  IF p1.err # "none"
             THEN /\ stage_error' = p1.err
                  /\ bs' = [hdf5 |-> hdf5, seq_len |-> p1.seq_len, counter |-> 0,
                            seq_arr |-> <<>>, placed |-> <<>>]
                  /\ UNCHANGED <<final_fa, final_h5>>
           ELSE IF p2.err # "none"
             THEN /\ stage_error' = p2.err
                  /\ bs' = [hdf5 |-> hdf5, seq_len |-> p1.seq_len, counter |-> p2.counter,
                            seq_arr |-> p2.seq_arr, placed |-> p2.placed]
                  /\ UNCHANGED <<final_fa, final_h5>>
           ELSE /\ bs' = [hdf5 |-> hdf5, seq_len |-> p1.seq_len, counter |-> p2.counter,
                          seq_arr |-> p2.seq_arr, placed |-> p2.placed]
                /\ IF ~hdf5
                     THEN /\ final_fa' = TextFile(ntips, p1.seq_len, p2.seq_arr)
                          /\ stage_error' = "none"
                          /\ UNCHANGED final_h5
                     ELSE H5Write(p2.seq_arr)
  /\ seqgen_calls' = EmptyBag
  /\ UNCHANGED <<length, simno, treeseq, genetrees, lengthsfile, seqs>>

\* the rows 1 .. n in increasing and in decreasing order
Ascending(n) == [i \in 1 .. n |-> i]
Descending(n) == [i \in 1 .. n |-> n + 1 - i]

\* what a fragment file of a tree of nt tips can hold: a fragment of seq-gen
\* with its rows in either order, or one with an unreadable header, a row
\* missing or a row too many
FragmentKinds(nt) ==
  {[hdr |-> h, rows |-> r] : h \in 1 .. MaxFragLen, r \in {Ascending(nt), Descending(nt)}}
  \cup {[hdr |-> BadHeader, rows |-> Ascending(nt)],
        [hdr |-> 1, rows |-> Ascending(nt - 1)],
        [hdr |-> 1, rows |-> Ascending(nt + 1)]}

FragmentDirs(nt) ==
  UNION {{[k \in S |-> [hdr |-> d[k].hdr, src |-> <<0, k>>, rows |-> d[k].rows]] :
            d \in [S -> FragmentKinds(nt)]} : S \in SUBSET (0 .. (MaxFrags - 1))}

\* the numbers of tips of the trees whose fragments are assembled
AsmTips == {1, 2, MaxAsmTips}

\* the Coalseq object of the pipeline: a tree of PipeTips tips
PipelineTree ==
  /\ ntips = PipeTips
  /\ tparent = <<>>
  /\ theight = <<>>
  /\ Ne = 1
  /\ schild = <<>>
  /\ demog = {}
  /\ events = <<>>
  /\ dtodo = <<>>
  /\ dpc = "idle"

InitPipeline == InitPipelineVars /\ WindowsIdle /\ PipelineTree /\ SeedIdle

NextPipeline ==
  \/ make_treeseq
  \/ write_trees
  \/ write_seqs
  \/ build_seqs

SpecPipeline == InitPipeline /\ [][NextPipeline]_vars

\* The seqs directories build_seqs can find: any of the files 0.fa ..
\* (MaxFrags-1).fa, each what seq-gen or an earlier run left there, and a tree
\* sequence of any number of intervals in memory.
InitAssemble ==
  /\ WindowsIdle
  /\ SeedIdle
  /\ ntips \in AsmTips
  /\ tparent = <<>>
  /\ theight = <<>>
  /\ Ne = 1
  /\ schild = <<>>
  /\ demog = {}
  /\ events = <<>>
  /\ dtodo = <<>>
  /\ dpc = "idle"
  /\ length = 1
  /\ simno = 1
  /\ \E n \in 0 .. MaxFrags :
        treeseq = [i \in 1 .. n |-> [length |-> LenDen, tree |-> <<1, i>>]]
  /\ genetrees = <<>>
  /\ lengthsfile = NoLengths
  /\ stage = "init"
  /\ stage_error = "none"
  /\ seqs \in FragmentDirs(ntips)
  /\ seqgen_calls = EmptyBag
  /\ final_fa = NoText
  /\ final_h5 = NoH5
  /\ bs = NoBuild

NextAssemble == build_seqs

SpecAssemble == InitAssemble /\ [][NextAssemble]_vars

(***************************************************************************)
(* The window extractor's claims, checked under SpecWindows.               *)
(***************************************************************************)
WinDone == wpc = "done"

NWindows == Len(index_nums)

Covered(site) ==
  \E i \in 1 .. NWindows : index_starts[i] <= site /\ site < index_ends[i]

CoversAll ==
  /\ \A site \in 0 .. (total_len - 1) : Covered(site)
  /\ NWindows >= 1
  /\ index_ends[NWindows] = total_len

ValidWindowArgs == 1 <= window_size /\ window_size <= total_len /\ slide_interval >= 1

\* C1 (as stated): for every window_size <= total_length and slide_interval >= 1
\* the emitted windows cover every site of [0, total_length) and the last
\* window ends at total_length.
C1_CoverageAnySlide == (WinDone /\ ValidWindowArgs) => CoversAll

\* C1 (amended): the same, for slide_interval <= window_size.
C1_Coverage ==
  (WinDone /\ ValidWindowArgs /\ slide_interval <= window_size) => CoversAll

\* C1 witness: a run with a stride smaller than the window that ended with a
\* remainder window whose start is not on the stride.
C1_Witness ==
  /\ WinDone /\ ValidWindowArgs /\ slide_interval <= window_size
  /\ NWindows >= 3
  /\ index_starts[NWindows] # index_starts[NWindows - 1] + slide_interval
  /\ index_starts[NWindows] # index_starts[NWindows - 1]

Window(i) == <<index_nums[i], index_starts[i], index_ends[i]>>

Windows == [i \in 1 .. NWindows |-> Window(i)]

\* C2 (as stated): window_size == total_length gives exactly the one window
\* (0, 0, total_length), whatever the slide interval.
C2_OneWindow ==
  (WinDone /\ window_size = total_len) => Windows = <<<<0, 0, total_len>>>>

\* C2 (amended): window_size == total_length gives the window (0, 0, total_length)
\* alone when slide_interval >= total_length, and otherwise that window followed
\* by a second one with the same range, (1, 0, total_length).
C2_Boundary ==
  (WinDone /\ window_size = total_len) =>
     IF slide_interval >= total_len
       THEN Windows = <<<<0, 0, total_len>>>>
       ELSE Windows = <<<<0, 0, total_len>>, <<1, 0, total_len>>>>

\* C2 witness: the full-width window was emitted twice.
C2_Witness ==
  /\ WinDone /\ window_size = total_len /\ slide_interval < total_len
  /\ NWindows = 2
  /\ [num |-> 1, start |-> 0, end |-> total_len, hdrlen |-> total_len,
      cols |-> 0 .. (total_len - 1)] \in wfiles

\* C3: when the regular-stride loop ends with start < total_length, exactly one
\* more window (num, startLimit, total_length) follows the num regular windows,
\* also when its range repeats the range of the window before it; and
\* (1000, 400, 300) gives (0,0,400), (1,300,700), (2,600,1000), (3,600,1000).
C3_RemainderPolicy ==
  /\ (wpc \in {"index", "done"} /\ startidx < total_len) =>
        /\ NWindows = num + 1
        /\ Window(NWindows) = <<num, total_len - window_size, total_len>>
        /\ \A i \in 1 .. num :
              Window(i) = <<i - 1, (i - 1) * slide_interval,
                            (i - 1) * slide_interval + window_size>>
        /\ write_subseq(num, total_len - window_size, total_len, total_len) \in wfiles
  /\ (wpc \in {"index", "done"} /\ startidx >= total_len) => NWindows = num
  /\ (WinDone /\ total_len = 1000 /\ window_size = 400 /\ slide_interval = 300) =>
        Windows = <<<<0, 0, 400>>, <<1, 300, 700>>, <<2, 600, 1000>>, <<3, 600, 1000>>>>

\* C3 witness: a remainder window that repeats the range of the last regular
\* window, after a loop that ended past the start limit.
C3_Witness ==
  /\ WinDone /\ startidx < total_len /\ NWindows >= 2
  /\ index_starts[NWindows] = index_starts[NWindows - 1]
  /\ index_ends[NWindows] = index_ends[NWindows - 1]
  /\ startidx # startlimit

\* C4: the index file holds the numbers 0, 1, 2, ... in three columns of equal
\* length; every window but the last is window_size wide, and the starts of
\* consecutive windows before the last differ by slide_interval.
C4_WindowIndex ==
  WinDone =>
    /\ indexfile.present
    /\ Len(indexfile.starts) = Len(indexfile.nums)
    /\ Len(indexfile.ends) = Len(indexfile.nums)
    /\ \A i \in 1 .. Len(indexfile.nums) : indexfile.nums[i] = i - 1
    /\ \A i \in 1 .. (Len(indexfile.nums) - 1) :
          indexfile.ends[i] - indexfile.starts[i] = window_size
    /\ \A i \in 1 .. (Len(indexfile.nums) - 2) :
          indexfile.starts[i + 1] - indexfile.starts[i] = slide_interval

\* C4 witness: an index of four windows whose last start is off the stride.
C4_Witness ==
  /\ WinDone /\ indexfile.present
  /\ Len(indexfile.nums) >= 4
  /\ slide_interval # window_size
  /\ indexfile.starts[Len(indexfile.nums)]
        - indexfile.starts[Len(indexfile.nums) - 1] # slide_interval

\* C5: with window_size > total_length nothing is written: no window file, no
\* index file, no window in the lists, and so no negative start offset.
C5_InvalidWindowRejected ==
  (window_size > total_len) =>
     /\ wfiles = {}
     /\ indexfile = NoFile
     /\ index_starts = <<>>
     /\ \A f \in wfiles : f.start >= 0

(***************************************************************************)
(* The claims about _get_demography, checked under SpecDemography.         *)
(***************************************************************************)
DemDone == dpc = "done"

StrictlyBifurcating == \A n \in Internal : Cardinality(Children(n)) = 2

\* the smallest idx among the leaves at or below n
MinLeaf(n) == Min({d \in Nodes : IsLeaf(d) /\ IsBelow(d, n)})

\* the merge event the specification gives for the internal node n
NodeEvent(n) ==
  [time |-> 2 * theight[n] * Ne,
   source |-> Max({MinLeaf(c) : c \in Children(n)}),
   dest |-> Min({MinLeaf(c) : c \in Children(n)})]

EventSet == {events[i] : i \in DOMAIN events}

\* C6: a strictly bifurcating ultrametric tree of N tips gives exactly N-1
\* events (no two internal nodes share a triple), each at a time >= 0, in
\* ascending order of time.
C6_EventCount ==
  (DemDone /\ StrictlyBifurcating) =>
     /\ Len(events) = ntips - 1
     /\ \A i \in DOMAIN events : events[i].time >= 0
     /\ \A i, j \in DOMAIN events : i < j => events[i].time <= events[j].time

\* C6 witness: a four-tip bifurcating tree with an internal node and its parent
\* at the same height and with the same smallest leaf, and two events at one time.
C6_Witness ==
  /\ DemDone /\ StrictlyBifurcating /\ ntips = 4
  /\ \E a, b \in Internal :
        /\ a # b /\ theight[a] = theight[b] /\ theight[a] > 0
        /\ MinLeaf(a) = MinLeaf(b)
  /\ Len(events) = 3
  /\ events[2].time < events[3].time

\* C7: every internal node gives the event (height * 2 * Ne, max of the
\* children's schild, min of the children's schild), where schild is the idx of
\* a leaf and the smallest idx of the leaves below an internal node; a two-tip
\* tree of height h gives the single event at time 2*h*Ne.
C7_NodeEvents ==
  DemDone =>
     /\ \A n \in Nodes : schild[n] = IF IsLeaf(n) THEN n ELSE MinLeaf(n)
     /\ \A n \in Internal : NodeEvent(n) \in EventSet
     /\ \A e \in EventSet : \E n \in Internal : e = NodeEvent(n)
     /\ ntips = 2 =>
           events = <<[time |-> 2 * theight[Root] * Ne, source |-> 1, dest |-> 0]>>

\* C7 witness: the tree (0,(1,2)) with the inner node at height 1 and the root
\* at height 2: the inner node's schild is 1, not its own idx, and the root's
\* event merges 1 into 0.
C7_Witness ==
  /\ DemDone /\ ntips = 3 /\ Ne = 2
  /\ \E n \in Internal : n # Root /\ schild[n] = 1 /\ theight[n] = 1
  /\ theight[Root] = 2
  /\ events = <<[time |-> 4, source |-> 2, dest |-> 1],
                [time |-> 8, source |-> 1, dest |-> 0]>>

PositiveHeights == \A n \in Internal : theight[n] > 0

\* C8: an internal node with k > 2 children gives k-1 events at its height, all
\* into the smallest schild of the children, one from every other child, in
\* increasing order (stated for the trees whose internal nodes are above height 0).
C8_Multifurcation ==
  (DemDone /\ PositiveHeights) =>
     \A n \in Internal :
        Cardinality(Children(n)) > 2 =>
           LET d == Min({schild[c] : c \in Children(n)})
               others == {schild[c] : c \in Children(n)} \ {d}
               here == {i \in DOMAIN events :
                          /\ events[i].time = 2 * theight[n] * Ne
                          /\ events[i].dest = d
                          /\ events[i].source \in others}
           IN  /\ Cardinality(here) = Cardinality(Children(n)) - 1
               /\ \A s \in others : \E i \in here : events[i].source = s
               /\ \A i, j \in here : i < j => events[i].source < events[j].source

\* the place of the event of the internal node n in the returned list
EventPos(n) == CHOOSE i \in DOMAIN events : events[i] = NodeEvent(n)

\* C9: the event of an internal node comes after the events of the internal
\* nodes below it (equal heights included), so that no event uses a population
\* that an earlier event of the list has merged away as its source (stated for
\* the strictly bifurcating trees whose internal nodes are above height 0).
C9_OrderConsistent ==
  (DemDone /\ StrictlyBifurcating /\ PositiveHeights) =>
     /\ \A a, b \in Internal :
           (a # b /\ IsBelow(a, b)) => EventPos(a) < EventPos(b)
     /\ \A i, j \in DOMAIN events :
           i < j => /\ events[j].source # events[i].source
                    /\ events[j].dest # events[i].source

(***************************************************************************)
(* The claims about write_trees, checked under SpecPipeline.               *)
(***************************************************************************)
\* the total length of the simulated interval sequence, in 1/LenDen sites
SimulatedTotal == SumSeq([i \in 1 .. Len(treeseq) |-> treeseq[i].length])

\* C10: after write_trees the lengths of the persisted length table sum exactly
\* to the total length of the simulated interval sequence, also when interval
\* lengths are not whole numbers of sites.
C10_RoundTrip ==
  stage = "write_trees" =>
     /\ lengthsfile.present
     /\ SumSeq(lengthsfile.lengths) * LenDen = SimulatedTotal
     /\ SumSeq(lengthsfile.lengths) = length

\* C11: after one write_trees on a fresh directory with n intervals, ms_genetrees
\* holds exactly 0.phy .. (n-1).phy, file i holds the local tree of interval i,
\* and the length table has n entries, entry i the length of interval i.
C11_TreesAndLengths ==
  (stage = "write_trees" /\ simno = 1) =>
     /\ DOMAIN genetrees = 0 .. (Len(treeseq) - 1)
     /\ \A f \in DOMAIN genetrees : genetrees[f] = Newick(treeseq[f + 1].tree)
     /\ lengthsfile.present
     /\ Len(lengthsfile.lengths) = Len(treeseq)
     /\ \A i \in 1 .. Len(treeseq) :
           lengthsfile.lengths[i] * LenDen = treeseq[i].length


(***************************************************************************)
(* Coalseq.__init__ and the process-wide random source.  The source is a    *)
(* generator over the states 0 .. RngMod-1: seeding sets the state from the *)
(* seed, a draw returns a value read off the state and steps the state.     *)
(* theta values are integers; uniform(lo, hi) returns lo when lo = hi and a *)
(* value of lo .. hi-1 otherwise.                                           *)
(***************************************************************************)
\* seed=None
NoSeed == -1

\* np.random.seed(seed)
Seeded(seed) == seed % RngMod

\* the state after one draw
Advance(r) == (r + 1) % RngMod

\* np.random.uniform(lo, hi) in the state r
Uniform(lo, hi, r) == IF hi > lo THEN lo + (r % (hi - lo)) ELSE lo

\* lines 876-879: a number, held as <<t>>, gives the range (t, t), a pair its
\* (min, max)
RTheta(theta) ==
  IF Len(theta) = 1 THEN <<theta[1], theta[1]>>
  ELSE <<Min({theta[1], theta[2]}), Max({theta[1], theta[2]})>>

\* lines 865-866: if seed: np.random.seed(seed)
SeedGuardMut(seed) == seed # NoSeed /\ seed # 1
SeedGuard(seed) == seed # NoSeed /\ seed # 0

\* the values the theta argument takes
ThetaArgs == {<<t>> : t \in 1 .. MaxTheta} \cup ((1 .. MaxTheta) \X (1 .. MaxTheta))

\* lines 852-916 and 925-929: __init__ seeds the source when the seed is truthy,
\* draws theta (line 883) and, in _get_test_values, draws it again
Coalseq_init ==
  /\ UNCHANGED notseedvars
  /\ Len(inits) < MaxInits
  /\ \E seed \in {NoSeed} \cup (0 .. MaxSeed), theta \in ThetaArgs :
       LET r0 == IF SeedGuard(seed) THEN Seeded(seed) ELSE rng
           rt == RTheta(theta)
           r1 == Advance(r0)
           th == Uniform(rt[1], rt[2], r1)
       IN  /\ rng' = Advance(r1)
           /\ inits' = Append(inits, [seed |-> seed, rtheta |-> rt, theta |-> th])

InitSeed ==
  /\ WindowsIdle
  /\ DemographyIdle
  /\ PipelineIdle
  /\ rng \in 0 .. (RngMod - 1)
  /\ inits = <<>>

NextSeed == Coalseq_init

SpecSeed == InitSeed /\ [][NextSeed]_vars

(***************************************************************************)
(* Claims about build_seqs                                                 *)
(***************************************************************************)
\* build_seqs ran last and completed
BuildDone == stage = "build_seqs" /\ stage_error = "none"

\* the sum of the header lengths of the fragments 0 .. k-1
RECURSIVE HeaderSum(_)
HeaderSum(k) == IF k = 0 THEN 0 ELSE HeaderSum(k - 1) + seqs[k - 1].hdr

WellFormedFragments ==
  \A k \in 0 .. (Len(treeseq) - 1) :
     /\ k \in DOMAIN seqs
     /\ seqs[k].hdr # BadHeader
     /\ Len(seqs[k].rows) = ntips
     /\ {seqs[k].rows[i] : i \in 1 .. ntips} = 1 .. ntips

\* C13: for every number of tips and every order of the rows in the fragment
\* files, row i of the alignment holds sequences of the taxon labelled i+1 only,
\* and the text output writes it under the label i+1.
C13_RowIsTaxon ==
  (BuildDone /\ WellFormedFragments) =>
     /\ \A r \in 1 .. ntips : \A c \in DOMAIN bs.seq_arr[r] : bs.seq_arr[r][c][2] = r
     /\ ~bs.hdf5 =>
          \A r \in 1 .. ntips :
             /\ final_fa.rows[r].label = r
             /\ \A c \in DOMAIN final_fa.rows[r].seq : final_fa.rows[r].seq[c][2] = r

\* C14: a second build_seqs right after a completed one, on the same fragments
\* and in the same output mode, completes and leaves the persisted alignment as
\* the first run wrote it.
C14_RebuildIdempotent ==
  [][(BuildDone /\ stage' = "build_seqs" /\ bs'.hdf5 = bs.hdf5 /\ seqs' = seqs
        /\ treeseq' = treeseq)
       => (stage_error' = "none" /\ final_fa' = final_fa /\ final_h5' = final_h5)]_vars

\* some fragment read by the first pass has a header with no integer length
BadHeaderRead ==
  \E k \in 0 .. (Len(treeseq) - 1) :
     /\ \A j \in 0 .. k : j \in DOMAIN seqs
     /\ seqs[k].hdr = BadHeader

\* the first fragment with such a header
FirstBadHeader ==
  CHOOSE k \in 0 .. (Len(treeseq) - 1) :
     /\ k \in DOMAIN seqs
     /\ seqs[k].hdr = BadHeader
     /\ \A j \in 0 .. (k - 1) : seqs[j].hdr # BadHeader

\* C17: a fragment whose header cannot be parsed makes build_seqs end in an
\* error raised in the first pass: the pass does not go on to a total that counts
\* the fragment as 0, the second pass never runs, and neither alignment file is
\* written.
C17_BadHeaderFails ==
  (stage = "build_seqs" /\ BadHeaderRead) =>
     /\ stage_error = "TypeError"
     /\ bs.seq_len = HeaderSum(FirstBadHeader)
     /\ bs.seq_arr = <<>>
     /\ bs.placed = <<>>
     /\ final_fa = NoText
     /\ final_h5 = NoH5

\* a readable fragment of length 2 followed by one with an unreadable header
C17_Witness ==
  /\ stage = "build_seqs"
  /\ Len(treeseq) = 2
  /\ DOMAIN seqs = {0, 1}
  /\ seqs[0].hdr = 2
  /\ seqs[1].hdr = BadHeader
  /\ stage_error = "TypeError"
  /\ bs.seq_len = 2

\* some fragment read has a number of rows other than ntips, and every header
\* read can be parsed
RowCountMismatch ==
  /\ \A k \in 0 .. (Len(treeseq) - 1) : k \in DOMAIN seqs /\ seqs[k].hdr # BadHeader
  /\ \E k \in 0 .. (Len(treeseq) - 1) : Len(seqs[k].rows) # ntips

\* C18: a fragment whose number of rows differs from ntips makes build_seqs
\* fail, so that no alignment is written in which a row lacks the fragment's
\* columns.
C18_RowCountChecked ==
  (stage = "build_seqs" /\ RowCountMismatch) =>
     /\ stage_error # "none"
     /\ final_fa.present =>
          \A r \in 1 .. ntips : \A c \in DOMAIN final_fa.rows[r].seq :
             final_fa.rows[r].seq[c] # <<>>

\* C15: a run of produce_subseqs on an output directory that holds the windows
\* and the index of an earlier run with the same arguments completes, and leaves
\* the same window files and the same index.
C15_RerunIdempotent ==
  [][(wpc = "index" /\ indexfile.present)
       => (wpc' = "done" /\ wfiles' = wfiles /\ indexfile' = indexfile)]_vars

\* C16: two constructions with the same supplied seed (0 included) and the same
\* theta range end with the same theta, whatever the state of the random source
\* was before each of them.
C16_SeedReproducible ==
  \A i, j \in DOMAIN inits :
     (inits[i].seed # NoSeed /\ inits[i].seed = inits[j].seed
        /\ inits[i].rtheta = inits[j].rtheta)
       => inits[i].theta = inits[j].theta

\* the same for the seeds other than 0, which holds
C16_NonZeroSeeds ==
  \A i, j \in DOMAIN inits :
     (inits[i].seed > 0 /\ inits[i].seed = inits[j].seed
        /\ inits[i].rtheta = inits[j].rtheta)
       => inits[i].theta = inits[j].theta

\* the tree files whose number has no entry in the length table
Orphans == {f \in DOMAIN genetrees : f >= Len(lengthsfile.lengths)}

\* C19: a write_seqs that finds a tree file whose number has no entry in the
\* length table fails: seq-gen is not run for such a file, the fragment file of
\* that number is left as it was (absent or as an earlier run wrote it), and the
\* fragments written before the failure stay on disk.
C19_MissingLengthFails ==
  [][(stage' = "write_seqs" /\ lengthsfile.present /\ Orphans # {})
       => /\ stage_error' = "ValueError"
          /\ \A c \in BagToSet(seqgen_calls') : c.tree \notin Orphans
          /\ \A f \in Orphans :
                /\ f \in DOMAIN seqs' <=> f \in DOMAIN seqs
                /\ f \in DOMAIN seqs => seqs'[f] = seqs[f]
          /\ \A c \in BagToSet(seqgen_calls') :
                /\ c.out \in DOMAIN seqs'
                /\ seqs'[c.out] = SeqGen(genetrees[c.tree], c.length, ntips)
          /\ DOMAIN seqs \subseteq DOMAIN seqs']_vars

\* a write_seqs that ran seq-gen for 0.phy and then failed on the stale 1.phy
C19_Witness ==
  /\ stage = "write_seqs"
  /\ stage_error = "ValueError"
  /\ DOMAIN genetrees = {0, 1}
  /\ Len(lengthsfile.lengths) = 1
  /\ BagToSet(seqgen_calls) = {[tree |-> 0, length |-> lengthsfile.lengths[1], out |-> 0]}
  /\ DOMAIN seqs = {0}

\* C20: build_seqs assembles exactly the fragments the seqs directory holds,
\* 0.fa .. (m-1).fa for m files, and fails on a gap, whatever stages ran before:
\* also when make_treeseq ran again after write_seqs.
C20_AssemblesDiskFragments ==
  stage = "build_seqs" =>
    LET m == Cardinality(DOMAIN seqs)
    IN  IF DOMAIN seqs = 0 .. (m - 1)
          THEN Len(bs.placed) = m /\ bs.seq_len = HeaderSum(m)
          ELSE stage_error # "none"

\* C21: after every sequence of make_treeseq and write_trees runs on one
\* directory, the tree files are exactly 0.phy .. (n-1).phy for the n intervals of
\* the latest run, their numbers are the index range of the length table, and so
\* a following write_seqs finds a length for every tree file it lists.
C21_RerunOverwrites ==
  stage = "write_trees" =>
     /\ DOMAIN genetrees = 0 .. (Len(treeseq) - 1)
     /\ DOMAIN genetrees = 0 .. (Len(lengthsfile.lengths) - 1)
     /\ Orphans = {}

\* C22: a completed write_seqs has run seq-gen exactly once for every tree file
\* i.phy, with that file and the length of entry i of the table, and has written
\* the output to seqs/i.fa: the runs are the same for every listing order.
C22_OnePerFile ==
  (stage = "write_seqs" /\ stage_error = "none") =>
     /\ seqgen_calls =
          SetToBag({[tree |-> f, length |-> lengthsfile.lengths[f + 1], out |-> f] :
                      f \in DOMAIN genetrees})
     /\ \A f \in DOMAIN genetrees :
           /\ f \in DOMAIN seqs
           /\ seqs[f] = SeqGen(genetrees[f], lengthsfile.lengths[f + 1], ntips)

\* a completed write_seqs over two tree files, which the listing gives in
\* either order
C22_Witness ==
  /\ stage = "write_seqs"
  /\ stage_error = "none"
  /\ DOMAIN genetrees = {0, 1}
  /\ BagCardinality(seqgen_calls) = 2
  /\ DOMAIN seqs = {0, 1}
  /\ seqs[1].src = genetrees[1].newick

\* the number of regular windows: floor((total_length - window_size) /
\* slide_interval) + 1
RegularWindows == (total_len - window_size) \div slide_interval + 1

\* C23: for 1 <= window_size <= total_length and slide_interval >= 1 the loop of
\* produce_subseqs ends: every iteration emits one window and moves start
\* strictly forward, the loop never runs more than RegularWindows times and is
\* left after exactly that many windows, and at most one window follows.
C23_LoopTerminates ==
  [][ValidWindowArgs =>
       /\ (wpc = "loop" /\ wpc' = "loop") =>
             /\ startidx' > startidx
             /\ num' = num + 1
             /\ Len(index_nums') = num'
             /\ num' <= RegularWindows
       /\ (wpc = "loop" /\ wpc' = "remainder") =>
             /\ num = RegularWindows
             /\ Len(index_nums) = RegularWindows
       /\ (wpc = "remainder" /\ wpc' = "index") =>
             Len(index_nums') \in {RegularWindows, RegularWindows + 1}]_vars

\* a finished run of two regular windows whose stride does not divide
\* total_length - window_size, followed by the final window
C23_Witness ==
  /\ WinDone /\ ValidWindowArgs
  /\ num = 2
  /\ RegularWindows = 2
  /\ (total_len - window_size) % slide_interval # 0
  /\ NWindows = 3

(***************************************************************************)
(* The events as ms.simulate applies them.  _get_popconfig gives one       *)
(* population per tip with one sample each; a MassMigration moves every    *)
(* lineage of its source into its dest.  A population is held as the set   *)
(* of the tips whose lineages are in it.                                   *)
(***************************************************************************)
\* lines 965-972: population p holds the sample of tip p
PopConfig == [p \in 0 .. (ntips - 1) |-> {p}]

\* one MassMigration applied to the populations q
Migrate(q, e) ==
  [p \in DOMAIN q |->
     IF p = e.source THEN {}
     ELSE IF p = e.dest THEN q[p] \cup q[e.source]
     ELSE q[p]]

\* the populations after the first i events of the list
RECURSIVE Pops(_)
Pops(i) == IF i = 0 THEN PopConfig ELSE Migrate(Pops(i - 1), events[i])

\* every internal node is strictly higher than its children
StrictlyHigher == \A n \in Nodes \ {Root} : theight[tparent[n]] > theight[n]

\* C24: for a strictly bifurcating tree with the leaves 0 .. N-1 and every
\* internal node strictly higher than its children, the events applied in list
\* order merge everything into one population: every tip but the smallest is the
\* source of exactly one event, the smallest is never a source, at each event
\* source and destination both still hold lineages, and after the last event all
\* lineages are in the population of the smallest tip.
C24_MergesIntoOne ==
  (DemDone /\ StrictlyBifurcating /\ StrictlyHigher) =>
     /\ \A i \in DOMAIN events :
           events[i].source \in 1 .. (ntips - 1) /\ events[i].dest \in 0 .. (ntips - 1)
     /\ \A t \in 1 .. (ntips - 1) :
           Cardinality({i \in DOMAIN events : events[i].source = t}) = 1
     /\ \A i \in DOMAIN events :
           /\ Pops(i - 1)[events[i].source] # {}
           /\ Pops(i - 1)[events[i].dest] # {}
     /\ Pops(Len(events)) = [p \in 0 .. (ntips - 1) |->
                               IF p = 0 THEN 0 .. (ntips - 1) ELSE {}]

\* a four-tip tree of two cherries at one height under the root: two events at
\* the same time, in either order, and then the root's
C24_Witness ==
  /\ DemDone /\ StrictlyBifurcating /\ StrictlyHigher
  /\ ntips = 4
  /\ \E a, b \in Internal \ {Root} : a # b /\ theight[a] = theight[b]
  /\ Len(events) = 3
  /\ events[1].source = 3
  /\ events[3] = [time |-> EventTime(theight[Root], Ne), source |-> 2, dest |-> 0]
  /\ Pops(2) = (0 :> {0, 1} @@ 1 :> {} @@ 2 :> {2, 3} @@ 3 :> {})

================================================================
